---- MODULE Spec2Model ----
(***************************************************************************)
(* Model of aigdb: the GDB/MI session controller (gdb_controller.py), the  *)
(* agent tools built on it (ai_agent.py), the sampler (autopsy.py) and the *)
(* command dispatch of the interactive front-end (cli.py).                 *)
(*                                                                         *)
(* Every handler is one action.  The body of a handler is written as a     *)
(* chain of operators over an invocation context c (the controller's       *)
(* fields, the debugger subprocess, the log, the commands submitted so     *)
(* far); each operator returns [c, raised, val], where raised = TRUE means *)
(* a Python exception is propagating out of it.                            *)
(***************************************************************************)
EXTENDS Integers, Sequences, FiniteSets, TLC

VARIABLES
    loaded,      \* GDBController.loaded
    exe_path,    \* GDBController.exe_path
    core_path,   \* GDBController.core_path
    gdb,         \* the debugger subprocess behind GDBController._gdb
    gdb_log,     \* CLIApp.gdb_log: the events appended by the invocation at hand
    last,        \* the invocation at hand: what was called and what it did
    pc,          \* where each thread of the front-end stands in the operation it runs
    pipe,        \* what the subprocess has written to its stdout and nobody has read
    wire         \* the commands written to the subprocess's stdin, in order

vars == <<loaded, exe_path, core_path, gdb, gdb_log, last, pc, pipe, wire>>

\* the part of the state only threads running side by side change
side == <<pc, pipe, wire>>

(***************************************************************************)
(* Bound of the model.                                                     *)
(***************************************************************************)
MaxSubmit == 6       \* a transport fault hits the 1st..MaxSubmit-th submit

(***************************************************************************)
(* Python values and string functions.                                     *)
(***************************************************************************)
None == "<None>"

Truthy(s) == s # None /\ s # ""

CharAt(s, i) == SubSeq(s, i, i)

\* str.lower() of one character
LowerChar(ch) ==
    CASE ch = "A" -> "a" [] ch = "B" -> "b" [] ch = "C" -> "c" [] ch = "D" -> "d"
      [] ch = "E" -> "e" [] ch = "F" -> "f" [] ch = "G" -> "g" [] ch = "H" -> "h"
      [] ch = "I" -> "i" [] ch = "J" -> "j" [] ch = "K" -> "k" [] ch = "L" -> "l"
      [] ch = "M" -> "m" [] ch = "N" -> "n" [] ch = "O" -> "o" [] ch = "P" -> "p"
      [] ch = "Q" -> "q" [] ch = "R" -> "r" [] ch = "S" -> "s" [] ch = "T" -> "t"
      [] ch = "U" -> "u" [] ch = "V" -> "v" [] ch = "W" -> "w" [] ch = "X" -> "x"
      [] ch = "Y" -> "y" [] ch = "Z" -> "z" [] OTHER -> ch

RECURSIVE lower(_)
lower(s) ==
    IF Len(s) = 0 THEN ""
    ELSE LowerChar(CharAt(s, 1)) \o lower(SubSeq(s, 2, Len(s)))

IsSpace(ch) == ch \in {" ", "\t", "\n", "\r"}

RECURSIVE lstrip(_)
lstrip(s) ==
    IF Len(s) > 0 /\ IsSpace(CharAt(s, 1)) THEN lstrip(SubSeq(s, 2, Len(s)))
    ELSE s

RECURSIVE rstrip(_)
rstrip(s) ==
    IF Len(s) > 0 /\ IsSpace(CharAt(s, Len(s)))
    THEN rstrip(SubSeq(s, 1, Len(s) - 1))
    ELSE s

strip(s) == rstrip(lstrip(s))

startswith(s, p) == Len(p) <= Len(s) /\ SubSeq(s, 1, Len(p)) = p

\* Python's "m in s" for strings
contains(s, m) ==
    \E i \in 1..(Len(s) - Len(m) + 1) : SubSeq(s, i, i + Len(m) - 1) = m

RECURSIVE join(_)
join(lines) ==
    IF Len(lines) = 0 THEN ""
    ELSE IF Len(lines) = 1 THEN lines[1]
    ELSE lines[1] \o "\n" \o join(Tail(lines))

RECURSIVE str(_)
\* str(n) of a Python int
str(n) ==
    IF n < 0 THEN "-" \o str(0 - n)
    ELSE IF n < 10 THEN CharAt("0123456789", n + 1)
    ELSE str(n \div 10) \o CharAt("0123456789", (n % 10) + 1)

max(a, b) == IF a >= b THEN a ELSE b
min(a, b) == IF a <= b THEN a ELSE b

(***************************************************************************)
(* Response records of pygdbmi: a record has a message and a payload; the  *)
(* payload is absent, a string, or a dict (kept as its str() text).        *)
(***************************************************************************)
PNone == [k |-> "none", v |-> ""]
PStr(s) == [k |-> "str", v |-> s]
PDict(s) == [k |-> "dict", v |-> s]
Rec(msg, payload) == [message |-> msg, payload |-> payload]

(***************************************************************************)
(* The debugger subprocess owned by self._gdb.  It is alive or dead and    *)
(* has an executable and a core bound, or not.  o is what happens to this  *)
(* one command: "ok" (gdb executes it), "err" (gdb answers with an error   *)
(* record and changes nothing), "silent" (gdb answers with no record and   *)
(* changes nothing) or "raise" (no answer within timeout_sec: pygdbmi      *)
(* raises).  A dead subprocess raises on every write.                      *)
(***************************************************************************)
Exes == {"/bin/app", "/bin/old"}
Cores == {"/tmp/core.1234", "/tmp/core.9"}

GdbInit == [alive |-> TRUE, exe |-> None, core |-> None]

\* GDBController.__init__; tries[i] is what pygdbmi does with the i-th way of
\* constructing GdbController: "ok", "TypeError" or another exception's name
__init__(tries) ==
    LET Built(n) ==
            [raised |-> FALSE, err |-> "", attempts |-> n,
             gdb |-> GdbInit, loaded |-> FALSE, exe_path |-> None, core_path |-> None]
        Failed(n) == [raised |-> TRUE, err |-> tries[n], attempts |-> n]
    IN  IF tries[1] = "ok" THEN Built(1)
        ELSE IF tries[1] # "TypeError" THEN Failed(1)
        ELSE IF tries[2] = "ok" THEN Built(2)
        ELSE IF tries[2] # "TypeError" THEN Failed(2)
        ELSE IF tries[3] = "ok" THEN Built(3)
        ELSE Failed(3)

TimeoutText == "Did not get response from gdb after 5.0 seconds"

GdbError(g, msg) ==
    [raised |-> FALSE, gdb |-> g, recs |-> <<Rec("error", PDict("{'msg': '" \o msg \o "'}"))>>]
GdbDone(g, recs) == [raised |-> FALSE, gdb |-> g, recs |-> recs]
GdbRaise(g) == [raised |-> TRUE, gdb |-> g, recs |-> <<>>]

ConsolePrefix == "interpreter-exec console \""

\* the console command inside interpreter-exec console "..."
ConsoleText(cmd) == SubSeq(cmd, Len(ConsolePrefix) + 1, Len(cmd) - 1)

\* gdb's own reading of a console command: leading blanks skipped, case kept
GdbConsole(g, text) ==
    LET w == strip(text) IN
    IF startswith(w, "quit")
    THEN GdbRaise([g EXCEPT !.alive = FALSE])
    ELSE IF w = "file"
    THEN GdbDone([g EXCEPT !.exe = None],
                 <<Rec(None, PStr("No executable file now.\n")),
                   Rec(None, PStr("No symbol file now.\n")),
                   Rec("done", PNone)>>)
    ELSE IF w = "core"
    THEN GdbDone([g EXCEPT !.core = None],
                 <<Rec(None, PStr("No core file now.\n")), Rec("done", PNone)>>)
    ELSE IF w = "info files"
    THEN IF g.exe = None
         THEN GdbDone(g, <<Rec(None, PStr("No executable file now.\n")),
                           Rec("done", PNone)>>)
         ELSE GdbDone(g, <<Rec(None, PStr("Symbols from " \o g.exe \o "\n")),
                           Rec("done", PNone)>>)
    ELSE IF \E p \in {"bt", "info ", "print ", "x/"} : startswith(w, p)
    THEN IF g.core = None
         THEN GdbError(g, "No stack.")
         ELSE GdbDone(g, <<Rec(None, PStr("#0 main ()\n")), Rec("done", PNone)>>)
    ELSE GdbError(g, "Undefined command")

GdbWrite(g, cmd, o) ==
    IF ~g.alive \/ o = "raise" THEN GdbRaise(g)
    ELSE IF o = "err" THEN GdbError(g, "failed")
    ELSE IF o = "silent" THEN GdbDone(g, <<>>)
    ELSE IF startswith(cmd, "-file-exec-and-symbols ")
    THEN LET p == SubSeq(cmd, Len("-file-exec-and-symbols ") + 1, Len(cmd)) IN
         IF p \in Exes THEN GdbDone([g EXCEPT !.exe = p], <<Rec("done", PNone)>>)
         ELSE IF p = "" THEN GdbDone([g EXCEPT !.exe = None], <<Rec("done", PNone)>>)
         ELSE GdbError(g, "No such file")
    ELSE IF startswith(cmd, "-target-select core ")
    THEN LET p == SubSeq(cmd, Len("-target-select core ") + 1, Len(cmd)) IN
         IF p \in Cores
         THEN GdbDone([g EXCEPT !.core = p], <<Rec("connected", PDict("{'frame': {}}"))>>)
         ELSE GdbError(g, "No such file")
    ELSE IF startswith(cmd, ConsolePrefix) THEN GdbConsole(g, ConsoleText(cmd))
    ELSE IF cmd = "-gdb-exit"
    THEN GdbDone([g EXCEPT !.alive = FALSE], <<Rec("exit", PNone)>>)
    ELSE IF g.core = None THEN GdbError(g, "No stack.")
    ELSE GdbDone(g, <<Rec("done", PDict("{result of " \o cmd \o "}"))>>)

(***************************************************************************)
(* Invocation context and results.                                         *)
(*   sent   the commands submitted to the Transport in this invocation     *)
(*   fault  [pos, kind]: the pos-th submit of the invocation gets kind;    *)
(*          last.fault is the fault that did hit a submit, if any          *)
(*   obs    observation of the invocation, read by the properties only:    *)
(*          verifies   the results of the verify_loaded calls, each with   *)
(*                     the number of commands submitted when it returned   *)
(*          reapplies  the number of reapply_target calls                  *)
(*          ens        how _ensure_loaded ended: "none" (not called),      *)
(*                     "empty", "msg" or "raised"                          *)
(*          ensEnd     the number of commands submitted when it ended      *)
(***************************************************************************)
NoObs == [verifies |-> <<>>, reapplies |-> 0, ens |-> "none", ensEnd |-> 0]

Ok(c, v) == [c |-> c, raised |-> FALSE, val |-> v]
Raised(c, e) == [c |-> c, raised |-> TRUE, val |-> e]

\* CLIApp.__init__.on_gdb_log
on_gdb_log(c, text) == [c EXCEPT !.gdb_log = Append(@, text)]

\* the f-string f"[{tag}]\n{text}\n"
Event(tag, text) == "[" \o tag \o "]\n" \o text \o "\n"

\* GDBController.write_mi
write_mi(c, mi_cmd) ==
    LET \* r is what self._gdb.write(mi_cmd, timeout_sec=...) does
        Written(r) ==
            IF r.raised
            THEN Raised([c EXCEPT !.sent = Append(@, mi_cmd), !.gdb = r.gdb], TimeoutText)
            ELSE Ok([c EXCEPT !.sent = Append(@, mi_cmd), !.gdb = r.gdb], r.recs)
    IN  Written(GdbWrite(c.gdb, mi_cmd,
                         IF c.fault.pos = Len(c.sent) + 1 THEN c.fault.kind ELSE "ok"))

\* GDBController.write_cli
write_cli(c, cli_cmd) == write_mi(c, ConsolePrefix \o cli_cmd \o "\"")

RECURSIVE ExtractLines_message_first(_)
\* the extraction taking a record's message in preference to its payload
ExtractLines_message_first(responses) ==
    IF Len(responses) = 0 THEN <<>>
    ELSE LET r == Head(responses)
             line == IF Truthy(r.message) THEN <<r.message>>
                     ELSE IF r.payload.k = "dict" THEN <<r.payload.v>>
                     ELSE IF r.payload.k = "str" /\ r.payload.v # "" THEN <<r.payload.v>>
                     ELSE <<>>
         IN  line \o ExtractLines_message_first(Tail(responses))

RECURSIVE ExtractLines(_)
ExtractLines(responses) ==
    IF Len(responses) = 0 THEN <<>>
    ELSE LET r == Head(responses)
             line == IF r.payload.k = "dict" THEN <<r.payload.v>>
                     ELSE IF r.payload.k = "str" /\ r.payload.v # "" THEN <<r.payload.v>>
                     ELSE IF Truthy(r.message) THEN <<r.message>>
                     ELSE <<>>
         IN  line \o ExtractLines(Tail(responses))

\* GDBController.format_responses
format_responses(responses) ==
    LET lines == ExtractLines(responses) IN
    IF Len(lines) > 0 THEN join(lines) ELSE "(no output)"

\* res = self.write_...(...); return self.format_responses(res)
Formatted(r) == IF r.raised THEN r ELSE Ok(r.c, format_responses(r.val))

\* GDBController.run_cli
run_cli(c, cmd) == Formatted(write_cli(c, cmd))

\* verify_loaded looking for the markers in the text as gdb wrote it
verify_loaded_case_kept(c) ==
    LET Markers(txt) ==
            contains(txt, "no executable file now") \/ contains(txt, "no symbol file now")
        Result(r, v) ==
            Ok([r.c EXCEPT !.obs.verifies = Append(@, [at |-> Len(r.c.sent), val |-> v])], v)
        Told(r) == Result(r, IF r.raised THEN FALSE ELSE ~Markers(strip(r.val)))
    IN  Told(run_cli(c, "info files"))

\* GDBController.verify_loaded
verify_loaded(c) ==
    LET Markers(txt) ==
            contains(txt, "no executable file now") \/ contains(txt, "no symbol file now")
        Result(r, v) ==
            Ok([r.c EXCEPT !.obs.verifies = Append(@, [at |-> Len(r.c.sent), val |-> v])], v)
        \* r is the outcome of self.run_cli("info files")
        Told(r) == Result(r, IF r.raised THEN FALSE ELSE ~Markers(lower(strip(r.val))))
    IN  Told(run_cli(c, "info files"))

\* GDBController.load_core
load_core(c, exe, core) ==
    LET Verified(out1, out2, v) ==
            Ok([v.c EXCEPT !.loaded = v.val], format_responses(out1.val \o out2.val))
        CoreBound(out1, out2) ==
            IF out2.raised THEN out2 ELSE Verified(out1, out2, verify_loaded(out2.c))
        ExeBound(out1) ==
            IF out1.raised THEN out1
            ELSE CoreBound(out1, write_mi(out1.c, "-target-select core " \o core))
    IN  ExeBound(write_mi([c EXCEPT !.exe_path = exe, !.core_path = core],
                          "-file-exec-and-symbols " \o exe))

\* reapply_target forgetting the recorded paths when its verification fails
reapply_target_forgetful(c) ==
    LET Verified(out1, out2, v) ==
            Ok([v.c EXCEPT !.loaded = v.val,
                           !.exe_path = IF v.val THEN @ ELSE None,
                           !.core_path = IF v.val THEN @ ELSE None],
               format_responses(out1.val \o out2.val))
        CoreBound(out1, out2) ==
            IF out2.raised THEN out2 ELSE Verified(out1, out2, verify_loaded(out2.c))
        ExeBound(out1) ==
            IF out1.raised THEN out1
            ELSE CoreBound(out1, write_mi(out1.c, "-target-select core " \o c.core_path))
        Called(c0) ==
            IF ~Truthy(c0.exe_path) \/ ~Truthy(c0.core_path)
            THEN Ok(c0, "(no recorded exe/core to reapply)")
            ELSE ExeBound(write_mi(c0, "-file-exec-and-symbols " \o c0.exe_path))
    IN  Called([c EXCEPT !.obs.reapplies = @ + 1])

\* reapply_target binding the core before the executable
reapply_target_core_first(c) ==
    LET Verified(out1, out2, v) ==
            Ok([v.c EXCEPT !.loaded = v.val], format_responses(out1.val \o out2.val))
        CoreBound(out1, out2) ==
            IF out2.raised THEN out2 ELSE Verified(out1, out2, verify_loaded(out2.c))
        ExeBound(out1) ==
            IF out1.raised THEN out1
            ELSE CoreBound(out1, write_mi(out1.c, "-file-exec-and-symbols " \o c.exe_path))
        Called(c0) ==
            IF ~Truthy(c0.exe_path) \/ ~Truthy(c0.core_path)
            THEN Ok(c0, "(no recorded exe/core to reapply)")
            ELSE ExeBound(write_mi(c0, "-target-select core " \o c0.core_path))
    IN  Called([c EXCEPT !.obs.reapplies = @ + 1])

\* GDBController.reapply_target
reapply_target(c) ==
    LET Verified(out1, out2, v) ==
            Ok([v.c EXCEPT !.loaded = v.val], format_responses(out1.val \o out2.val))
        CoreBound(out1, out2) ==
            IF out2.raised THEN out2 ELSE Verified(out1, out2, verify_loaded(out2.c))
        ExeBound(out1) ==
            IF out1.raised THEN out1
            ELSE CoreBound(out1, write_mi(out1.c, "-target-select core " \o c.core_path))
        Called(c0) ==
            IF ~Truthy(c0.exe_path) \/ ~Truthy(c0.core_path)
            THEN Ok(c0, "(no recorded exe/core to reapply)")
            ELSE ExeBound(write_mi(c0, "-file-exec-and-symbols " \o c0.exe_path))
    IN  Called([c EXCEPT !.obs.reapplies = @ + 1])

\* GDBController.thread_info
thread_info(c) == Formatted(write_mi(c, "-thread-info"))

\* stack_list_frames selecting the thread after listing the frames
stack_list_frames_select_last(c, thread_id) ==
    LET Selected(fr, sel) ==
            IF sel.raised THEN sel ELSE Ok(sel.c, format_responses(sel.val \o fr.val))
        Listed(fr) ==
            IF fr.raised THEN fr
            ELSE Selected(fr, IF thread_id # <<>>
                              THEN write_mi(fr.c, "-thread-select " \o str(thread_id[1]))
                              ELSE Ok(fr.c, <<>>))
    IN  Listed(write_mi(c, "-stack-list-frames"))

\* GDBController.stack_list_frames; thread_id is <<>> for None, <<n>> for n
stack_list_frames(c, thread_id) ==
    LET Listed(sel, fr) ==
            IF fr.raised THEN fr ELSE Ok(fr.c, format_responses(sel.val \o fr.val))
        Selected(sel) ==
            IF sel.raised THEN sel ELSE Listed(sel, write_mi(sel.c, "-stack-list-frames"))
    IN  Selected(IF thread_id # <<>>
                 THEN write_mi(c, "-thread-select " \o str(thread_id[1]))
                 ELSE Ok(c, <<>>))

\* GDBController.stack_list_locals
stack_list_locals(c, all_values) ==
    LET flag == IF all_values THEN "--all-values" ELSE "--no-values" IN
    Formatted(write_mi(c, "-stack-list-variables " \o flag))

\* GDBController.get_signal_summary
get_signal_summary(c) ==
    LET Second(r1, r2) ==
            IF r2.raised THEN r2 ELSE Ok(r2.c, format_responses(r1.val \o r2.val))
        First(r1) ==
            IF r1.raised THEN r1 ELSE Second(r1, write_cli(r1.c, "info program"))
    IN  First(write_cli(c, "info signal"))

\* quit letting the failure of the exit command out
quit_unguarded(c) ==
    LET Sent(r) == IF r.raised THEN r ELSE Ok(r.c, None)
    IN  Sent(write_mi(c, "-gdb-exit"))

\* GDBController.quit
quit(c) ==
    LET \* r is the outcome of self.write_mi("-gdb-exit"); except Exception: pass
        Sent(r) == Ok(r.c, None)
    IN  Sent(write_mi(c, "-gdb-exit"))

\* GDBController.select_thread
select_thread(c, thread_id) == Formatted(write_mi(c, "-thread-select " \o str(thread_id)))

\* GDBController.select_frame
select_frame(c, level) == Formatted(write_mi(c, "-stack-select-frame " \o str(level)))

\* GDBController.get_registers
get_registers(c) == Formatted(write_cli(c, "info registers"))

\* disassemble_current passing the count as given
disassemble_current_unclamped(c, count) ==
    Formatted(write_cli(c, "x/" \o str(count) \o "i $pc"))

\* GDBController.disassemble_current
disassemble_current(c, count) ==
    Formatted(write_cli(c, "x/" \o str(max(1, min(count, 256))) \o "i $pc"))

\* GDBController.memory_read
memory_read(c, addr, count, fmt) ==
    Formatted(write_cli(c, "x/" \o str(max(1, min(count, 256))) \o strip(fmt) \o " " \o addr))

\* GDBController.info_files
info_files(c) == Formatted(write_cli(c, "info files"))

\* GDBController.info_sharedlibrary
info_sharedlibrary(c) == Formatted(write_cli(c, "info sharedlibrary"))

\* GDBController.bt_full
bt_full(c) == Formatted(write_cli(c, "bt full"))

\* GDBController.info_args
info_args(c) == Formatted(write_cli(c, "info args"))

\* GDBController.info_locals
info_locals(c) == Formatted(write_cli(c, "info locals"))

(***************************************************************************)
(* ai_agent.py: build_agent's helpers and tools.  The two user-facing      *)
(* messages are Chinese text in the source; they are kept here in English. *)
(***************************************************************************)
NOT_LOADED_MSG == "core not loaded yet: load the executable and the core with load_core first"
BLOCKED_MSG == "command blocked: it may clear or change the executable/core context"
BlockedText(command) == "blocked a command that may destroy the context: " \o command

dangerous_prefixes ==
    {"file", "core-file", "symbol-file", "exec-file", "target", "attach", "run", "quit"}

\* build_agent._log_and_return
_log_and_return(c, tag, text) == Ok(on_gdb_log(c, Event(tag, text)), text)

\* records how _ensure_loaded ended
EnsEnd(r, how) == [r EXCEPT !.c.obs.ens = how, !.c.obs.ensEnd = Len(r.c.sent)]

\* _ensure_loaded reapplying whatever verify_loaded says
_ensure_loaded_always_reapply(c) ==
    LET \* not loaded: after the restore, v is the outcome of gdb.verify_loaded()
        Reverified(v) ==
            IF v.val THEN EnsEnd(Ok([v.c EXCEPT !.loaded = TRUE], ""), "empty")
            ELSE EnsEnd(Ok(v.c, NOT_LOADED_MSG), "msg")
        \* not loaded: restore_out is the outcome of gdb.reapply_target()
        Restored(restore_out) ==
            IF restore_out.raised THEN EnsEnd(restore_out, "raised")
            ELSE Reverified(verify_loaded(
                     on_gdb_log(restore_out.c, Event("restore", restore_out.val))))
        \* loaded: restore_out is the outcome of gdb.reapply_target()
        Reapplied(restore_out) ==
            IF restore_out.raised THEN EnsEnd(restore_out, "raised")
            ELSE EnsEnd(Ok(on_gdb_log(restore_out.c, Event("restore", restore_out.val)), ""),
                        "empty")
        \* loaded: v is the outcome of gdb.verify_loaded()
        Checked(v) ==
            Reapplied(reapply_target(v.c))
    IN  IF ~c.loaded
        THEN IF Truthy(c.exe_path) /\ Truthy(c.core_path)
             THEN Restored(reapply_target(c))
             ELSE EnsEnd(Ok(c, NOT_LOADED_MSG), "msg")
        ELSE Checked(verify_loaded(c))

\* _ensure_loaded not looking at the recorded paths
_ensure_loaded_unrecorded(c) ==
    LET \* not loaded: after the restore, v is the outcome of gdb.verify_loaded()
        Reverified(v) ==
            IF v.val THEN EnsEnd(Ok([v.c EXCEPT !.loaded = TRUE], ""), "empty")
            ELSE EnsEnd(Ok(v.c, NOT_LOADED_MSG), "msg")
        \* not loaded: restore_out is the outcome of gdb.reapply_target()
        Restored(restore_out) ==
            IF restore_out.raised THEN EnsEnd(restore_out, "raised")
            ELSE Reverified(verify_loaded(
                     on_gdb_log(restore_out.c, Event("restore", restore_out.val))))
        \* loaded: restore_out is the outcome of gdb.reapply_target()
        Reapplied(restore_out) ==
            IF restore_out.raised THEN EnsEnd(restore_out, "raised")
            ELSE EnsEnd(Ok(on_gdb_log(restore_out.c, Event("restore", restore_out.val)), ""),
                        "empty")
        \* loaded: v is the outcome of gdb.verify_loaded()
        Checked(v) ==
            IF ~v.val THEN Reapplied(reapply_target(v.c)) ELSE EnsEnd(Ok(v.c, ""), "empty")
    IN  IF ~c.loaded
        THEN Restored(reapply_target(c))
        ELSE Checked(verify_loaded(c))

\* build_agent._ensure_loaded
_ensure_loaded(c) ==
    LET \* not loaded: after the restore, v is the outcome of gdb.verify_loaded()
        Reverified(v) ==
            IF v.val THEN EnsEnd(Ok([v.c EXCEPT !.loaded = TRUE], ""), "empty")
            ELSE EnsEnd(Ok(v.c, NOT_LOADED_MSG), "msg")
        \* not loaded: restore_out is the outcome of gdb.reapply_target()
        Restored(restore_out) ==
            IF restore_out.raised THEN EnsEnd(restore_out, "raised")
            ELSE Reverified(verify_loaded(
                     on_gdb_log(restore_out.c, Event("restore", restore_out.val))))
        \* loaded: restore_out is the outcome of gdb.reapply_target()
        Reapplied(restore_out) ==
            IF restore_out.raised THEN EnsEnd(restore_out, "raised")
            ELSE EnsEnd(Ok(on_gdb_log(restore_out.c, Event("restore", restore_out.val)), ""),
                        "empty")
        \* loaded: v is the outcome of gdb.verify_loaded()
        Checked(v) ==
            IF ~v.val THEN Reapplied(reapply_target(v.c)) ELSE EnsEnd(Ok(v.c, ""), "empty")
    IN  IF ~c.loaded
        THEN IF Truthy(c.exe_path) /\ Truthy(c.core_path)
             THEN Restored(reapply_target(c))
             ELSE EnsEnd(Ok(c, NOT_LOADED_MSG), "msg")
        ELSE Checked(verify_loaded(c))

\* _safe_call logging a failure under the operation's own tag
_safe_call_failure_tagged(tag, r) ==
    IF r.raised
    THEN Ok(on_gdb_log(r.c, Event(tag, r.val)), "(error: " \o r.val \o ")")
    ELSE _log_and_return(r.c, tag, r.val)

\* build_agent._safe_call; r is the outcome of fn()
_safe_call(tag, r) ==
    IF r.raised
    THEN Ok(on_gdb_log(r.c, Event("error", r.val)), "(error: " \o r.val \o ")")
    ELSE _log_and_return(r.c, tag, r.val)

\* build_agent.tool_load_core
tool_load_core(c, exe, core) ==
    LET Loaded(out) ==
            IF out.raised THEN out ELSE _log_and_return(out.c, "load_core", out.val)
    IN  Loaded(load_core(c, exe, core))

\* tool_run_gdb without the trimming of the command
tool_run_gdb_untrimmed(c, command) ==
    LET Ran(out) == IF out.raised THEN out ELSE _log_and_return(out.c, "gdb", out.val)
        Normalised(msg, cmd_norm) ==
            IF \E p \in dangerous_prefixes : startswith(cmd_norm, p)
            THEN Ok(on_gdb_log(msg.c, Event("blocked", BlockedText(command))), BLOCKED_MSG)
            ELSE Ran(run_cli(msg.c, command))
        Gated(msg) ==
            IF msg.raised \/ msg.val # "" THEN msg ELSE Normalised(msg, lower(command))
    IN  Gated(_ensure_loaded(c))

\* tool_run_gdb logging a rejection with the tag of a failure
tool_run_gdb_blocked_as_error(c, command) ==
    LET Ran(out) == IF out.raised THEN out ELSE _log_and_return(out.c, "gdb", out.val)
        Normalised(msg, cmd_norm) ==
            IF \E p \in dangerous_prefixes : startswith(cmd_norm, p)
            THEN Ok(on_gdb_log(msg.c, Event("error", BlockedText(command))), BLOCKED_MSG)
            ELSE Ran(run_cli(msg.c, command))
        Gated(msg) ==
            IF msg.raised \/ msg.val # "" THEN msg ELSE Normalised(msg, lower(strip(command)))
    IN  Gated(_ensure_loaded(c))

\* build_agent.tool_run_gdb
tool_run_gdb(c, command) ==
    LET Ran(out) == IF out.raised THEN out ELSE _log_and_return(out.c, "gdb", out.val)
        Normalised(msg, cmd_norm) ==
            IF \E p \in dangerous_prefixes : startswith(cmd_norm, p)
            THEN Ok(on_gdb_log(msg.c, Event("blocked", BlockedText(command))), BLOCKED_MSG)
            ELSE Ran(run_cli(msg.c, command))
        Gated(msg) ==
            IF msg.raised \/ msg.val # "" THEN msg ELSE Normalised(msg, lower(strip(command)))
    IN  Gated(_ensure_loaded(c))

\* build_agent.tool_bt
tool_bt(c, thread_id) ==
    LET Listed(out) ==
            IF out.raised THEN out ELSE _log_and_return(out.c, "backtrace", out.val)
        Gated(msg) ==
            IF msg.raised \/ msg.val # "" THEN msg
            ELSE Listed(stack_list_frames(msg.c, <<thread_id>>))
    IN  Gated(_ensure_loaded(c))

\* build_agent.tool_locals
tool_locals(c) ==
    LET Listed(out) ==
            IF out.raised THEN out ELSE _log_and_return(out.c, "locals", out.val)
        Gated(msg) ==
            IF msg.raised \/ msg.val # "" THEN msg
            ELSE Listed(stack_list_locals(msg.c, TRUE))
    IN  Gated(_ensure_loaded(c))

\* build_agent.tool_select_thread
tool_select_thread(c, thread_id) ==
    LET Gated(msg) ==
            IF msg.raised \/ msg.val # "" THEN msg
            ELSE _safe_call("select_thread", select_thread(msg.c, thread_id))
    IN  Gated(_ensure_loaded(c))

\* build_agent.tool_select_frame
tool_select_frame(c, level) ==
    LET Gated(msg) ==
            IF msg.raised \/ msg.val # "" THEN msg
            ELSE _safe_call("select_frame", select_frame(msg.c, level))
    IN  Gated(_ensure_loaded(c))

\* build_agent.tool_registers
tool_registers(c) ==
    LET Gated(msg) ==
            IF msg.raised \/ msg.val # "" THEN msg
            ELSE _safe_call("registers", get_registers(msg.c))
    IN  Gated(_ensure_loaded(c))

\* build_agent.tool_disassemble
tool_disassemble(c, count) ==
    LET Gated(msg) ==
            IF msg.raised \/ msg.val # "" THEN msg
            ELSE _safe_call("disassemble", disassemble_current(msg.c, count))
    IN  Gated(_ensure_loaded(c))

\* build_agent.tool_memory_read
tool_memory_read(c, addr, count, fmt) ==
    LET Gated(msg) ==
            IF msg.raised \/ msg.val # "" THEN msg
            ELSE _safe_call("memory", memory_read(msg.c, addr, count, fmt))
    IN  Gated(_ensure_loaded(c))

\* build_agent.tool_info_files
tool_info_files(c) ==
    LET Gated(msg) ==
            IF msg.raised \/ msg.val # "" THEN msg
            ELSE _safe_call("info_files", info_files(msg.c))
    IN  Gated(_ensure_loaded(c))

\* build_agent.tool_sharedlibs
tool_sharedlibs(c) ==
    LET Gated(msg) ==
            IF msg.raised \/ msg.val # "" THEN msg
            ELSE _safe_call("sharedlibs", info_sharedlibrary(msg.c))
    IN  Gated(_ensure_loaded(c))

\* build_agent.tool_bt_full
tool_bt_full(c) ==
    LET Gated(msg) ==
            IF msg.raised \/ msg.val # "" THEN msg
            ELSE _safe_call("bt_full", bt_full(msg.c))
    IN  Gated(_ensure_loaded(c))

\* build_agent.tool_info_args
tool_info_args(c) ==
    LET Gated(msg) ==
            IF msg.raised \/ msg.val # "" THEN msg
            ELSE _safe_call("info_args", info_args(msg.c))
    IN  Gated(_ensure_loaded(c))

\* build_agent.tool_info_locals
tool_info_locals(c) ==
    LET Gated(msg) ==
            IF msg.raised \/ msg.val # "" THEN msg
            ELSE _safe_call("info_locals", info_locals(msg.c))
    IN  Gated(_ensure_loaded(c))

\* build_agent.tool_thread_info
tool_thread_info(c) ==
    LET Gated(msg) ==
            IF msg.raised \/ msg.val # "" THEN msg
            ELSE _safe_call("thread_info", thread_info(msg.c))
    IN  Gated(_ensure_loaded(c))

(***************************************************************************)
(* autopsy.py                                                              *)
(***************************************************************************)
\* AutoAnalyzer._log
_log(c, tag, text) == Ok(on_gdb_log(c, Event(tag, text)), text)

\* AutoAnalyzer.collect
collect(c) ==
    LET Locals(threads, sig, bt, locals) ==
            IF locals.raised THEN locals
            ELSE Ok(_log(locals.c, "locals", locals.val).c,
                    threads.val \o "\n\n" \o sig.val \o "\n\n" \o bt.val
                        \o "\n\n" \o locals.val)
        Bt(threads, sig, bt) ==
            IF bt.raised THEN bt
            ELSE Locals(threads, sig, bt, stack_list_locals(_log(bt.c, "bt", bt.val).c, TRUE))
        Sig(threads, sig) ==
            IF sig.raised THEN sig
            ELSE Bt(threads, sig, stack_list_frames(_log(sig.c, "signal", sig.val).c, <<>>))
        Threads(threads) ==
            IF threads.raised THEN threads
            ELSE Sig(threads,
                     get_signal_summary(_log(threads.c, "thread_info", threads.val).c))
    IN  Threads(thread_info(c))

(***************************************************************************)
(* Inputs of the handlers.                                                 *)
(***************************************************************************)
RawCommands == {"bt", "quit", " Quit", "QUIT now", "runner", "file", "core"}
ThreadIds == {1}
Levels == {0}
Counts == {0, 32, 300}
Addrs == {"$sp"}
Fmts == {"bx"}

NoFault == [pos |-> 0, kind |-> "ok"]
Faults == {NoFault} \cup [pos : 1..MaxSubmit, kind : {"err", "raise"}]

UserTexts ==
    {"/load " \o e \o " " \o p : e \in Exes, p \in Cores}
    \cup {"/load /bin/app", "/analyze", "/analyse ", "/collect", "", "why did it crash"}
    \cup {"/cmd " \o cmd : cmd \in RawCommands}

(***************************************************************************)
(* The state machine.  A caller (the front-end's event loop, or the agent  *)
(* running a tool) invokes one handler, which runs to its end, and then    *)
(* takes the result (Return).  gdb_log is append-only and no handler reads *)
(* it, so the model keeps the part of it that the invocation at hand has   *)
(* appended.                                                               *)
(***************************************************************************)
NoArg == [cmd |-> "", exe |-> "", core |-> "", n |-> 0]

Idle == [op |-> "idle", arg |-> NoArg,
         pre |-> [loaded |-> FALSE, exe_path |-> None, core_path |-> None, gdb |-> GdbInit],
         fault |-> NoFault, sent |-> <<>>, raised |-> FALSE, ret |-> "", obs |-> NoObs]

\* GDBController.__init__ and CLIApp.__init__
\* the threads: the event-loop thread, and one worker thread for the tool
\* calls of each agent run
MaxAgents == 1       \* agent runs awaited at the same time
Loop == 0
Agents == 1..MaxAgents
Callers == {Loop} \cup Agents

\* a thread that runs no operation; on: the agent run of an agent's thread is
\* being awaited
Resting ==
    [on |-> FALSE, op |-> "none", step |-> "none", phase |-> "none", branch |-> "none",
     arg |-> NoArg, first |-> FALSE, out1 |-> <<>>, out2 |-> <<>>]

Init ==
    /\ loaded = FALSE
    /\ exe_path = None
    /\ core_path = None
    /\ gdb = GdbInit
    /\ gdb_log = <<>>
    /\ last = Idle
    /\ pc = [t \in Callers |-> Resting]
    /\ pipe = <<>>
    /\ wire = <<>>

\* the context a handler starts in
Start(f) ==
    [loaded |-> loaded, exe_path |-> exe_path, core_path |-> core_path, gdb |-> gdb,
     gdb_log |-> <<>>, sent |-> <<>>, fault |-> f, obs |-> NoObs]

\* the state a handler leaves, r being its outcome
Done(op, arg, r) ==
    /\ loaded' = r.c.loaded
    /\ exe_path' = r.c.exe_path
    /\ core_path' = r.c.core_path
    /\ gdb' = r.c.gdb
    /\ gdb_log' = r.c.gdb_log
    /\ UNCHANGED side
    /\ last' = [op |-> op, arg |-> arg,
                pre |-> [loaded |-> loaded, exe_path |-> exe_path, core_path |-> core_path,
                         gdb |-> gdb],
                fault |-> IF r.c.fault.pos \in 1..Len(r.c.sent) THEN r.c.fault ELSE NoFault,
                sent |-> r.c.sent, raised |-> r.raised,
                ret |-> r.val, obs |-> r.c.obs]

Room == last.op = "idle"

\* the caller takes the result of the invocation
Return ==
    /\ last.op # "idle"
    /\ last' = Idle
    /\ gdb_log' = <<>>
    /\ UNCHANGED <<loaded, exe_path, core_path, gdb, side>>

ToolLoadCore ==
    /\ Room
    /\ \E f \in Faults, e \in Exes, p \in Cores :
         Done("load_core", [NoArg EXCEPT !.exe = e, !.core = p], tool_load_core(Start(f), e, p))

ToolRunGdb ==
    /\ Room
    /\ \E f \in Faults, command \in RawCommands :
         Done("run_gdb", [NoArg EXCEPT !.cmd = command], tool_run_gdb(Start(f), command))

ToolBt ==
    /\ Room
    /\ \E f \in Faults, t \in ThreadIds :
         Done("backtrace", [NoArg EXCEPT !.n = t], tool_bt(Start(f), t))

ToolLocals ==
    /\ Room
    /\ \E f \in Faults : Done("list_locals", NoArg, tool_locals(Start(f)))

ToolSelectThread ==
    /\ Room
    /\ \E f \in Faults, t \in ThreadIds :
         Done("select_thread", [NoArg EXCEPT !.n = t], tool_select_thread(Start(f), t))

ToolSelectFrame ==
    /\ Room
    /\ \E f \in Faults, l \in Levels :
         Done("select_frame", [NoArg EXCEPT !.n = l], tool_select_frame(Start(f), l))

ToolRegisters ==
    /\ Room
    /\ \E f \in Faults : Done("registers", NoArg, tool_registers(Start(f)))

ToolDisassemble ==
    /\ Room
    /\ \E f \in Faults, n \in Counts :
         Done("disassemble", [NoArg EXCEPT !.n = n], tool_disassemble(Start(f), n))

ToolMemoryRead ==
    /\ Room
    /\ \E f \in Faults, a \in Addrs, n \in Counts, fmt \in Fmts :
         Done("memory_read", [NoArg EXCEPT !.n = n, !.cmd = a],
              tool_memory_read(Start(f), a, n, fmt))

ToolInfoFiles ==
    /\ Room
    /\ \E f \in Faults : Done("info_files", NoArg, tool_info_files(Start(f)))

ToolSharedlibs ==
    /\ Room
    /\ \E f \in Faults : Done("sharedlibs", NoArg, tool_sharedlibs(Start(f)))

ToolBtFull ==
    /\ Room
    /\ \E f \in Faults : Done("bt_full", NoArg, tool_bt_full(Start(f)))

ToolInfoArgs ==
    /\ Room
    /\ \E f \in Faults : Done("info_args", NoArg, tool_info_args(Start(f)))

ToolInfoLocals ==
    /\ Room
    /\ \E f \in Faults : Done("info_locals", NoArg, tool_info_locals(Start(f)))

ToolThreadInfo ==
    /\ Room
    /\ \E f \in Faults : Done("thread_info", NoArg, tool_thread_info(Start(f)))

(***************************************************************************)
(* cli.py: CLIApp.handle_user_text, one action per branch of the dispatch. *)
(* The agent started by a branch calls the tools above; the AI pane        *)
(* (ai_log) is display only and is not part of the model.                  *)
(***************************************************************************)
\* the word at the head of s and what follows it
TakeWord(s) ==
    LET i == CHOOSE j \in 1..(Len(s) + 1) :
                 /\ j = Len(s) + 1 \/ IsSpace(CharAt(s, j))
                 /\ \A k \in 1..(j - 1) : ~IsSpace(CharAt(s, k))
    IN  [w |-> SubSeq(s, 1, i - 1), rest |-> lstrip(SubSeq(s, i, Len(s)))]

\* str.split(maxsplit=2)
split2(s) ==
    LET s0 == lstrip(s) IN
    IF s0 = "" THEN <<>> ELSE
    LET a == TakeWord(s0) IN
    IF a.rest = "" THEN <<a.w>> ELSE
    LET b == TakeWord(a.rest) IN
    IF b.rest = "" THEN <<a.w, b.w>> ELSE <<a.w, b.w, b.rest>>

\* /load <exe> <core>
CliLoad ==
    /\ Room
    /\ \E t \in UserTexts, f \in Faults :
         LET text == strip(t)
             \* out is the outcome of self.gdb.load_core(exe, core)
             Loaded(out) ==
                 IF out.raised THEN Ok(out.c, "")
                 ELSE Ok(on_gdb_log(out.c, Event("load_core", out.val)), "")
             Split(parts) ==
                 IF Len(parts) # 3
                 THEN Done("/load", [NoArg EXCEPT !.cmd = text], Ok(Start(f), ""))
                 ELSE Done("/load",
                           [NoArg EXCEPT !.cmd = text, !.exe = parts[2], !.core = parts[3]],
                           Loaded(load_core(Start(f), parts[2], parts[3])))
         IN  /\ text # ""
             /\ startswith(text, "/load ")
             /\ Split(split2(text))

\* /cmd <gdb command>
CliCmd ==
    /\ Room
    /\ \E t \in UserTexts, f \in Faults :
         LET text == strip(t)
             cmd == SubSeq(text, Len("/cmd ") + 1, Len(text))
             \* out is the outcome of self.gdb.run_cli(cmd)
             Ran(out) ==
                 IF out.raised THEN out
                 ELSE Ok(on_gdb_log(out.c, Event("GDB HH:MM:SS", out.val)), "")
         IN  /\ text # ""
             /\ ~startswith(text, "/load ")
             /\ startswith(text, "/cmd ")
             /\ Done("/cmd", [NoArg EXCEPT !.cmd = cmd], Ran(run_cli(Start(f), cmd)))

\* /analyze and /analyse
CliAnalyze ==
    /\ Room
    /\ \E t \in UserTexts, f \in Faults :
         LET text == strip(t)
             \* info is the outcome of self.gdb.info_files()
             Shown(info) ==
                 IF info.raised THEN info
                 ELSE Ok(on_gdb_log(info.c, Event("info_files HH:MM:SS", info.val)), "")
             \* v is the outcome of self.gdb.verify_loaded()
             Verified(v) == IF ~v.val THEN Ok(v.c, "") ELSE Shown(info_files(v.c))
         IN  /\ text # ""
             /\ ~startswith(text, "/load ")
             /\ ~startswith(text, "/cmd ")
             /\ strip(text) = "/analyze" \/ strip(text) = "/analyse"
             /\ Done("/analyze", [NoArg EXCEPT !.cmd = text], Verified(verify_loaded(Start(f))))

\* /collect
CliCollect ==
    /\ Room
    /\ \E t \in UserTexts, f \in Faults :
         LET text == strip(t)
             Collected(collected) ==
                 IF collected.raised THEN collected ELSE Ok(collected.c, "")
         IN  /\ text # ""
             /\ ~startswith(text, "/load ")
             /\ ~startswith(text, "/cmd ")
             /\ strip(text) \notin {"/analyze", "/analyse"}
             /\ strip(text) = "/collect"
             /\ Done("/collect", [NoArg EXCEPT !.cmd = text], Collected(collect(Start(f))))

\* empty input, and free text handed to the agent
CliAsk ==
    /\ Room
    /\ \E t \in UserTexts :
         LET text == strip(t) IN
         /\ \/ text = ""
            \/ /\ ~startswith(text, "/load ")
               /\ ~startswith(text, "/cmd ")
               /\ strip(text) \notin {"/analyze", "/analyse", "/collect"}
         /\ Done("ask", [NoArg EXCEPT !.cmd = text], Ok(Start(NoFault), ""))

Next ==
    \/ ToolLoadCore
    \/ ToolRunGdb
    \/ ToolBt
    \/ ToolLocals
    \/ ToolSelectThread
    \/ ToolSelectFrame
    \/ ToolRegisters
    \/ ToolDisassemble
    \/ ToolMemoryRead
    \/ ToolInfoFiles
    \/ ToolSharedlibs
    \/ ToolBtFull
    \/ ToolInfoArgs
    \/ ToolInfoLocals
    \/ ToolThreadInfo
    \/ CliLoad
    \/ CliCmd
    \/ CliAnalyze
    \/ CliCollect
    \/ CliAsk
    \/ Return

Spec == Init /\ [][Next]_vars

(***************************************************************************)
(* The functions that read no session state, applied to given inputs: the  *)
(* rendering of a sequence of response records, and the construction of    *)
(* the controller under every behaviour of the three ways of constructing  *)
(* pygdbmi's GdbController.                                                *)
(***************************************************************************)
MaxRecords == 2      \* the longest sequence of response records rendered

Payloads == {PNone, PStr(""), PStr("#0 main ()"), PDict("{'msg': 'No stack.'}")}
Messages == {None, "", "done"}
Records == {Rec(m, pl) : m \in Messages, pl \in Payloads}
RecordSeqs == UNION {[1..n -> Records] : n \in 0..MaxRecords}

Outcomes == {"ok", "TypeError", "ValueError"}
Tries == [1..3 -> Outcomes]

Given(fn, arg) == [op |-> "given", fn |-> fn, arg |-> arg, ret |-> ""]

InitUnits ==
    /\ loaded = FALSE
    /\ exe_path = None
    /\ core_path = None
    /\ gdb = GdbInit
    /\ gdb_log = <<>>
    /\ last \in {Given("format_responses", rs) : rs \in RecordSeqs}
                \cup {Given("__init__", t) : t \in Tries}
    /\ pc = [t \in Callers |-> Resting]
    /\ pipe = <<>>
    /\ wire = <<>>

Render ==
    /\ last.op = "given"
    /\ last.fn = "format_responses"
    /\ last' = [last EXCEPT !.op = "returned", !.ret = format_responses(last.arg)]
    /\ UNCHANGED <<loaded, exe_path, core_path, gdb, gdb_log, side>>

Construct ==
    /\ last.op = "given"
    /\ last.fn = "__init__"
    /\ last' = [last EXCEPT !.op = "returned", !.ret = __init__(last.arg)]
    /\ UNCHANGED <<loaded, exe_path, core_path, gdb, gdb_log, side>>

NextUnits ==
    \/ Render
    \/ Construct

SpecUnits == InitUnits /\ [][NextUnits]_vars

(***************************************************************************)
(* The controller called directly: a client of GDBController calls its     *)
(* public methods in any order, each call running to its end before the    *)
(* next one.                                                               *)
(***************************************************************************)
MaxOver == 2         \* counts reach MaxOver below 1 and MaxOver above 256

CountRange == (0 - MaxOver)..(1 + MaxOver) \cup (256 - MaxOver)..(256 + MaxOver)
ApiFaults == Faults \cup [pos : 1..MaxSubmit, kind : {"silent"}]
ApiCommands == {"bt", "file", "core", "quit"}
ApiThreadIds == {<<>>, <<1>>, <<2>>}

ApiLoadCore ==
    /\ Room
    /\ \E f \in ApiFaults, e \in Exes \cup {""}, p \in Cores :
         Done("gdb.load_core", [NoArg EXCEPT !.exe = e, !.core = p], load_core(Start(f), e, p))

ApiRunCli ==
    /\ Room
    /\ \E f \in ApiFaults, cmd \in ApiCommands :
         Done("gdb.run_cli", [NoArg EXCEPT !.cmd = cmd], run_cli(Start(f), cmd))

ApiVerifyLoaded ==
    /\ Room
    /\ \E f \in ApiFaults : Done("gdb.verify_loaded", NoArg, verify_loaded(Start(f)))

ApiReapplyTarget ==
    /\ Room
    /\ \E f \in ApiFaults : Done("gdb.reapply_target", NoArg, reapply_target(Start(f)))

ApiQuit ==
    /\ Room
    /\ \E f \in ApiFaults : Done("gdb.quit", NoArg, quit(Start(f)))

ApiDisassemble ==
    /\ Room
    /\ \E f \in ApiFaults, n \in CountRange :
         Done("gdb.disassemble_current", [NoArg EXCEPT !.n = n],
              disassemble_current(Start(f), n))

ApiMemoryRead ==
    /\ Room
    /\ \E f \in ApiFaults, a \in Addrs, n \in CountRange, fmt \in Fmts :
         Done("gdb.memory_read", [NoArg EXCEPT !.n = n, !.cmd = a],
              memory_read(Start(f), a, n, fmt))

ApiStackListFrames ==
    /\ Room
    /\ \E f \in ApiFaults, t \in ApiThreadIds :
         Done("gdb.stack_list_frames", [NoArg EXCEPT !.n = IF t = <<>> THEN 0 ELSE t[1]],
              stack_list_frames(Start(f), t))

NextApi ==
    \/ ApiLoadCore
    \/ ApiRunCli
    \/ ApiVerifyLoaded
    \/ ApiReapplyTarget
    \/ ApiQuit
    \/ ApiDisassemble
    \/ ApiMemoryRead
    \/ ApiStackListFrames
    \/ Return

SpecApi == Init /\ [][NextApi]_vars

(***************************************************************************)
(* Vocabulary of the properties.                                           *)
(***************************************************************************)
GatedTools ==
    {"run_gdb", "backtrace", "list_locals", "select_thread", "select_frame", "registers",
     "disassemble", "memory_read", "info_files", "sharedlibs", "bt_full", "info_args",
     "info_locals", "thread_info"}
Tools == GatedTools \cup {"load_core"}

\* the read-only command of verify_loaded
Probe == ConsolePrefix \o "info files" \o "\""
BindExe(path) == "-file-exec-and-symbols " \o path
BindCore(path) == "-target-select core " \o path
IsBind(cmd) ==
    startswith(cmd, "-file-exec-and-symbols ") \/ startswith(cmd, "-target-select core ")
IsRestore(event) == startswith(event, "[restore]\n")

\* the command's trimmed, lower-cased text starts with a denylist prefix
Denylisted(command) ==
    \E p \in {"file", "core-file", "symbol-file", "exec-file", "target", "attach", "run", "quit"} :
        startswith(lower(strip(command)), p)

\* the commands submitted by the context check, and those submitted after it
CheckSent == SubSeq(last.sent, 1, last.obs.ensEnd)
OwnSent == SubSeq(last.sent, last.obs.ensEnd + 1, Len(last.sent))
BindsSent == SelectSeq(last.sent, IsBind)

\* the Transport raised at a submit of the invocation
TransportRaised ==
    \/ last.sent # <<>> /\ ~last.pre.gdb.alive
    \/ last.fault.kind = "raise" /\ last.fault.pos \in 1..Len(last.sent)

\* a response record yields a line of text, and the line it yields
YieldsText(r) == (r.payload.k # "none" /\ r.payload.v # "") \/ (r.message # None /\ r.message # "")
TextOf(r) == IF r.payload.k # "none" /\ r.payload.v # "" THEN r.payload.v ELSE r.message

RECURSIVE LinesOf(_)
\* the lines yielded by records, each line but the last ended by a newline
LinesOf(records) ==
    IF Len(records) = 1 THEN TextOf(records[1])
    ELSE LinesOf(SubSeq(records, 1, Len(records) - 1)) \o "\n" \o TextOf(records[Len(records)])

\* what the Transport does with the i-th command of the invocation
FaultAt(i) == IF last.fault.pos = i THEN last.fault.kind ELSE "ok"

\* the records that answer the i-th command, when no command before it has
\* changed the debugger
Answer(i) == GdbWrite(last.pre.gdb, last.sent[i], FaultAt(i)).recs

\* the count a command carries for a requested count n
Clamped(n) == IF n > 256 THEN 256 ELSE IF n < 1 THEN 1 ELSE n

\* the controller's flag and paths are what they were when the call started
SessionUnchanged ==
    /\ loaded = last.pre.loaded
    /\ exe_path = last.pre.exe_path
    /\ core_path = last.pre.core_path

\* the events of an invocation: the failure event, and all but [restore]
IsError(event) == startswith(event, "[error]\n")
IsOwnEvent(event) == ~IsRestore(event)

\* the last verify_loaded call of the invocation
LastVerify == last.obs.verifies[Len(last.obs.verifies)]

\* the bind commands for the paths recorded when the invocation started
RecordedPair == <<BindExe(last.pre.exe_path), BindCore(last.pre.core_path)>>

\* a gated operation starts with both paths recorded and finds the context
\* not usable: the flag is false, or it is true and verify_loaded says false
C4_NotUsable ==
    /\ last.op \in GatedTools
    /\ Truthy(last.pre.exe_path)
    /\ Truthy(last.pre.core_path)
    /\ \/ ~last.pre.loaded
       \/ last.obs.verifies # <<>> /\ ~last.obs.verifies[1].val

(***************************************************************************)
(* C1.  As claimed: a denylisted raw command given to run_gdb is answered  *)
(* with the fixed rejection message in every session state, and nothing at *)
(* all is submitted to the Transport during the invocation.                *)
(***************************************************************************)
C1_Original ==
    (last.op = "run_gdb" /\ Denylisted(last.arg.cmd)) =>
        /\ ~last.raised
        /\ last.ret = BLOCKED_MSG
        /\ last.sent = <<>>

(***************************************************************************)
(* C1, amended.  A denylisted raw command given to run_gdb is never        *)
(* submitted: the invocation submits nothing after the context check, all  *)
(* it submits is the check's probe and bind commands, and when the check   *)
(* returns empty the operation returns the fixed rejection message.        *)
(***************************************************************************)
C1_DenylistedNeverSubmitted ==
    (last.op = "run_gdb" /\ Denylisted(last.arg.cmd)) =>
        /\ OwnSent = <<>>
        /\ \A i \in 1..Len(last.sent) : last.sent[i] = Probe \/ IsBind(last.sent[i])
        /\ last.obs.ens = "empty" => (~last.raised /\ last.ret = BLOCKED_MSG)
        /\ last.obs.ens = "msg" => (~last.raised /\ last.ret = NOT_LOADED_MSG)

C1_Witness ==
    /\ last.op = "run_gdb"
    /\ last.arg.cmd = " Quit"
    /\ last.ret = BLOCKED_MSG
    /\ last.sent = <<Probe>>

(***************************************************************************)
(* C2.  As claimed: through no entry point is a passthrough command whose  *)
(* trimmed, lower-cased text starts with a denylist prefix wrapped by      *)
(* write_cli and submitted to the debugger subprocess.                     *)
(***************************************************************************)
C2_Original ==
    \A i \in 1..Len(last.sent) :
        startswith(last.sent[i], ConsolePrefix) => ~Denylisted(ConsoleText(last.sent[i]))

(***************************************************************************)
(* C3.  As claimed: _ensure_loaded returns empty if and only if the last   *)
(* verification it made (its own, or the one that ends the reapply) found  *)
(* the context usable; when it returns the not-loaded message the gated    *)
(* operation submits no command of its own.                                *)
(***************************************************************************)
C3_Original ==
    (last.op \in GatedTools /\ last.obs.ens \in {"empty", "msg"}) =>
        /\ last.obs.ens = "empty" <=> (last.obs.verifies # <<>> /\ LastVerify.val)
        /\ last.obs.ens = "msg" => OwnSent = <<>>

C5_NoReapplyWhenIntact ==
    ( /\ last.op \in GatedTools
      /\ last.pre.loaded
      /\ last.pre.gdb.alive
      /\ last.pre.gdb.exe # None
      /\ ~(last.fault.pos = 1 /\ last.fault.kind = "raise") ) =>
        /\ last.obs.ens = "empty"
        /\ last.obs.reapplies = 0
        /\ CheckSent = <<Probe>>
        /\ BindsSent = <<>>
        /\ SelectSeq(gdb_log, IsRestore) = <<>>

C5_Witness ==
    /\ last.op = "thread_info"
    /\ last.pre.loaded
    /\ last.pre.gdb.exe = "/bin/app"
    /\ last.sent = <<Probe, "-thread-info">>
    /\ ~last.raised

(***************************************************************************)
(* C6.  In the initial session state (flag false, no path recorded) every  *)
(* gated operation returns the not-loaded message, submits no bind command *)
(* and no command of its own (at most the probe), and leaves loaded,       *)
(* exe_path and core_path unchanged.                                       *)
(***************************************************************************)
C6_NotLoadedMessage ==
    ( /\ last.op \in GatedTools
      /\ ~last.pre.loaded
      /\ last.pre.exe_path = None
      /\ last.pre.core_path = None ) =>
        /\ ~last.raised
        /\ last.ret = NOT_LOADED_MSG
        /\ Len(last.sent) <= 1
        /\ \A i \in 1..Len(last.sent) : last.sent[i] = Probe
        /\ loaded = last.pre.loaded
        /\ exe_path = last.pre.exe_path
        /\ core_path = last.pre.core_path

C6_Witness ==
    /\ last.op = "disassemble"
    /\ ~last.pre.loaded
    /\ last.pre.exe_path = None
    /\ last.pre.core_path = None
    /\ last.ret = NOT_LOADED_MSG
    /\ ~loaded

(***************************************************************************)
(* C7.  As claimed: no operation of the catalog ends with an exception;    *)
(* when the Transport raised at a submit of the invocation, an [error]     *)
(* event is logged and the operation returns an inline error string.       *)
(***************************************************************************)
C7_Original ==
    last.op \in Tools =>
        /\ ~last.raised
        /\ TransportRaised =>
               /\ SelectSeq(gdb_log, IsError) # <<>>
               /\ startswith(last.ret, "(error: ")

(***************************************************************************)
(* C8.  As claimed: every operation invocation appends exactly one event   *)
(* of its own to the log (its [tag], [blocked] or [error] event; the       *)
(* [restore] event of the context check is not counted).                   *)
(***************************************************************************)
C8_Original ==
    last.op \in Tools => Len(SelectSeq(gdb_log, IsOwnEvent)) = 1

(***************************************************************************)
(* C9.  As claimed: load_core(e, c) leaves exe_path = e and core_path = c, *)
(* submits the bind of e and then the bind of c, and ends, normally or by  *)
(* an exception, with loaded equal to the result of a verify_loaded call   *)
(* made after both binds of this call.                                     *)
(***************************************************************************)
C9_Original ==
    (last.op \in {"load_core", "/load"} /\ last.arg.exe # "") =>
        /\ exe_path = last.arg.exe
        /\ core_path = last.arg.core
        /\ BindsSent # <<>>
        /\ \A i \in 1..Len(BindsSent) :
               BindsSent[i] = <<BindExe(last.arg.exe), BindCore(last.arg.core)>>[i]
        /\ last.obs.verifies # <<>>
        /\ LastVerify.at = 3
        /\ loaded = LastVerify.val

(***************************************************************************)
(* C10.  As claimed: whoever the caller, a command other than those of the *)
(* context-loading operation is submitted only after _ensure_loaded has    *)
(* been called in the same invocation and has returned empty.              *)
(***************************************************************************)
C10_Original ==
    (last.op \notin {"load_core", "/load", "idle"} /\ OwnSent # <<>>) =>
        last.obs.ens = "empty"

(***************************************************************************)
(* C11.  format_responses returns "(no output)" when the sequence is empty *)
(* or no record yields text (each has no payload or an empty one, and no   *)
(* message or an empty one); otherwise it returns the texts of the records *)
(* that yield one, in order, one per line, a record's payload being taken  *)
(* in preference to its message.                                           *)
(***************************************************************************)
C11_RenderText ==
    (last.op = "returned" /\ last.fn = "format_responses") =>
        LET bearing == SelectSeq(last.arg, YieldsText) IN
        IF bearing = <<>> THEN last.ret = "(no output)" ELSE last.ret = LinesOf(bearing)

C11_Witness ==
    /\ last.op = "returned"
    /\ last.fn = "format_responses"
    /\ last.arg = <<Rec("done", PStr("#0 main ()")), Rec("done", PNone)>>
    /\ last.ret = "#0 main ()\ndone"

(***************************************************************************)
(* C14.  As claimed: the construction tries the primary way, then the      *)
(* alternate one, then the no-argument default, each only after the one    *)
(* before it failed; a failure of the primary or of the alternate way, of  *)
(* whatever kind, does not reach the caller; a successful construction     *)
(* starts with loaded false and no recorded path.                          *)
(***************************************************************************)
C14_Original ==
    (last.op = "returned" /\ last.fn = "__init__") =>
        /\ \A i \in 1..(last.ret.attempts - 1) : last.arg[i] # "ok"
        /\ last.ret.raised => (last.ret.attempts = 3 /\ last.arg[3] # "ok")
        /\ ~last.ret.raised =>
               /\ last.arg[last.ret.attempts] = "ok"
               /\ ~last.ret.loaded
               /\ last.ret.exe_path = None
               /\ last.ret.core_path = None

(***************************************************************************)
(* C12.  For every count, the one command that memory_read and             *)
(* disassemble_current submit carries min(256, max(1, count)): above 256   *)
(* it is 256, below 1 it is 1, in between it is the count; the command is  *)
(* submitted whatever the count.                                           *)
(***************************************************************************)
C12_CountClamped ==
    /\ last.op = "gdb.disassemble_current" =>
           last.sent = <<ConsolePrefix \o "x/" \o str(Clamped(last.arg.n)) \o "i $pc" \o "\"">>
    /\ last.op = "gdb.memory_read" =>
           last.sent = <<ConsolePrefix \o "x/" \o str(Clamped(last.arg.n)) \o "bx "
                             \o last.arg.cmd \o "\"">>

C12_Witness ==
    /\ last.op = "gdb.disassemble_current"
    /\ last.arg.n = 258
    /\ last.sent = <<"interpreter-exec console \"x/256i $pc\"">>

(***************************************************************************)
(* C13.  quit never raises: whatever the Transport does with the exit      *)
(* command, quit returns normally, has submitted the exit command and      *)
(* nothing else, and leaves loaded, exe_path and core_path unchanged.      *)
(***************************************************************************)
C13_QuitNeverRaises ==
    last.op = "gdb.quit" =>
        /\ ~last.raised
        /\ Len(last.sent) <= 1
        /\ \A i \in 1..Len(last.sent) : last.sent[i] = "-gdb-exit"
        /\ SessionUnchanged

C13_Witness ==
    /\ last.op = "gdb.quit"
    /\ TransportRaised
    /\ last.pre.loaded
    /\ ~last.raised
    /\ loaded

(***************************************************************************)
(* C15.  verify_loaded submits the probe and nothing else, never raises,   *)
(* leaves loaded and the paths unchanged, and returns false exactly when   *)
(* the Transport raised or the debugger answered that it has no executable *)
(* (gdb writes the marker with a capital letter); it returns true for any  *)
(* other answer, one that renders as "(no output)" included.               *)
(***************************************************************************)
C15_VerifyLoaded ==
    last.op = "gdb.verify_loaded" =>
        /\ ~last.raised
        /\ last.sent = <<Probe>>
        /\ SessionUnchanged
        /\ last.ret = ~(TransportRaised \/ (FaultAt(1) = "ok" /\ last.pre.gdb.exe = None))

C15_Witness ==
    /\ last.op = "gdb.verify_loaded"
    /\ last.pre.gdb.alive
    /\ last.pre.gdb.exe = None
    /\ FaultAt(1) = "ok"
    /\ last.ret = FALSE

C19_SelectThenList ==
    last.op = "gdb.stack_list_frames" =>
        IF last.arg.n # 0
        THEN /\ last.sent # <<>>
             /\ last.sent[1] = "-thread-select " \o str(last.arg.n)
             /\ Len(last.sent) <= 2
             /\ Len(last.sent) = 2 => last.sent[2] = "-stack-list-frames"
             /\ ~last.raised =>
                    /\ Len(last.sent) = 2
                    /\ last.ret = format_responses(Answer(1) \o Answer(2))
        ELSE last.sent = <<"-stack-list-frames">>

C19_Witness ==
    /\ last.op = "gdb.stack_list_frames"
    /\ last.arg.n = 2
    /\ last.ret = "{result of -thread-select 2}\n{result of -stack-list-frames}"

\* a gated operation starts with both paths recorded and valid, the subprocess
\* alive and answering every command of the invocation
C17_Recoverable ==
    /\ last.op \in GatedTools
    /\ last.pre.exe_path \in Exes
    /\ last.pre.core_path \in Cores
    /\ last.pre.gdb.alive
    /\ last.fault = NoFault

\* the context check has restored the recorded pair and the operation has run
C17_Healed ==
    /\ SelectSeq(CheckSent, IsBind) = RecordedPair
    /\ SelectSeq(OwnSent, IsBind) = <<>>
    /\ gdb_log # <<>>
    /\ IsRestore(gdb_log[1])
    /\ \A i \in 2..Len(gdb_log) : ~IsRestore(gdb_log[i])
    /\ loaded
    /\ ~last.raised
    /\ last.ret # NOT_LOADED_MSG
    /\ (last.op # "run_gdb" \/ ~Denylisted(last.arg.cmd)) =>
           (OwnSent # <<>> /\ Len(gdb_log) = 2)

(***************************************************************************)
(* C17.  As claimed: when the debugger has lost its context (its           *)
(* executable or its core is no longer bound) while both paths are         *)
(* recorded, whatever the loaded flag says, and it accepts the bind        *)
(* commands again, the next gated operation restores the context before    *)
(* its own command, logs a [restore] event before its own event, leaves    *)
(* loaded true and returns the operation's output, not the not-loaded      *)
(* message.                                                                *)
(***************************************************************************)
C17_Original ==
    (C17_Recoverable /\ (last.pre.gdb.exe = None \/ last.pre.gdb.core = None)) =>
        C17_Healed

(***************************************************************************)
(* C17, the part that holds: the loss of the executable, which is the loss *)
(* verify_loaded detects, is healed by the next gated operation; so is any *)
(* loss met with the loaded flag false.                                    *)
(***************************************************************************)
C17_ExecutableLossHealed ==
    (C17_Recoverable /\ (last.pre.gdb.exe = None \/ ~last.pre.loaded)) =>
        C17_Healed

C17_ExecutableLossWitness ==
    /\ last.op = "thread_info"
    /\ last.pre.loaded
    /\ last.pre.gdb.exe = None
    /\ last.pre.gdb.core # None
    /\ C17_Healed

\* the events an invocation logs besides [restore], in order
OwnEvents == SelectSeq(gdb_log, IsOwnEvent)

\* the raw command as write_cli wraps it
Forwarded(command) == ConsolePrefix \o command \o "\""

\* the Safety Gate has rejected the raw command of the invocation
C20_Rejected == last.op = "run_gdb" /\ ~last.raised /\ last.ret = BLOCKED_MSG

\* what a rejection leaves in the log and at the Transport
C20_RejectionLogged ==
    /\ C20_Rejected
    /\ OwnEvents = <<Event("blocked", BlockedText(last.arg.cmd))>>
    /\ OwnSent = <<>>

MaxWire == 4         \* commands written to the subprocess in one behaviour

ThreadCommands == {"bt", "file"}

\* the thread is at the submit of step s of its operation
AtStep(a, s) == [a EXCEPT !.step = s, !.phase = "ready"]

\* on_enter -> handle_user_text("/cmd <cmd>"): self.gdb.run_cli(cmd)
OnEnterCmd ==
    /\ pc[Loop].op = "none"
    /\ \E cmd \in ThreadCommands :
         pc' = [pc EXCEPT ![Loop] =
                    [AtStep(Resting, "own") EXCEPT !.op = "/cmd", !.arg.cmd = cmd, !.first = TRUE]]
    /\ UNCHANGED <<loaded, exe_path, core_path, gdb, gdb_log, last, pipe, wire>>

\* on_enter -> handle_user_text("/load <exe> <core>"): self.gdb.load_core(exe, core),
\* which records the paths before its first submit
OnEnterLoad ==
    /\ pc[Loop].op = "none"
    /\ \E e \in {"/bin/app"}, p \in {"/tmp/core.1234"} :
         /\ exe_path' = e
         /\ core_path' = p
         /\ pc' = [pc EXCEPT ![Loop] =
                       [AtStep(Resting, "bind_exe") EXCEPT
                            !.op = "/load", !.arg.exe = e, !.arg.core = p, !.first = TRUE]]
    /\ UNCHANGED <<loaded, gdb, gdb_log, last, pipe, wire>>

\* on_enter -> handle_user_text(text) reaching "await self.agent.ainvoke(...)"
OnEnterAsk ==
    /\ pc[Loop].op = "none"
    /\ \E t \in Agents :
         /\ ~pc[t].on
         /\ pc' = [pc EXCEPT ![t].on = TRUE]
    /\ UNCHANGED <<loaded, exe_path, core_path, gdb, gdb_log, last, pipe, wire>>

\* the agent run calls tool_thread_info on its worker thread: the entry of
\* _ensure_loaded, up to its first submit or to the not-loaded message
AgentCallsTool ==
    /\ \E t \in Agents :
         /\ pc[t].on
         /\ pc[t].op = "none"
         /\ pc' = [pc EXCEPT ![t] =
                IF ~loaded
                THEN IF Truthy(exe_path) /\ Truthy(core_path)
                     THEN [AtStep(@, "bind_exe") EXCEPT
                               !.op = "thread_info", !.branch = "unloaded", !.first = TRUE]
                     ELSE @
                ELSE [AtStep(@, "probe") EXCEPT
                          !.op = "thread_info", !.branch = "loaded", !.first = TRUE]]
    /\ UNCHANGED <<loaded, exe_path, core_path, gdb, gdb_log, last, pipe, wire>>

\* the agent run ends and the suspended task of the event loop resumes
AgentFinishes ==
    /\ \E t \in Agents :
         /\ pc[t].on
         /\ pc[t].op = "none"
         /\ pc' = [pc EXCEPT ![t].on = FALSE]
    /\ UNCHANGED <<loaded, exe_path, core_path, gdb, gdb_log, last, pipe, wire>>

\* the command of the step a thread is at
CommandAt(a) ==
    IF a.step \in {"probe", "reprobe", "postprobe"} THEN Probe
    ELSE IF a.step = "bind_exe"
    THEN BindExe(IF a.op = "/load" THEN a.arg.exe ELSE exe_path)
    ELSE IF a.step = "bind_core"
    THEN BindCore(IF a.op = "/load" THEN a.arg.core ELSE core_path)
    ELSE IF a.op = "/cmd" THEN Forwarded(a.arg.cmd)
    ELSE "-thread-info"

\* write_mi, first half: the command is written to the subprocess, which
\* runs it and writes its answer
SubmitBegins ==
    /\ Len(wire) < MaxWire
    /\ \E t \in Callers :
         /\ pc[t].phase = "ready"
         /\ gdb' = GdbWrite(gdb, CommandAt(pc[t]), "ok").gdb
         /\ pipe' = Append(pipe, GdbWrite(gdb, CommandAt(pc[t]), "ok").recs)
         /\ wire' = Append(wire, [who |-> t, cmd |-> CommandAt(pc[t]), first |-> pc[t].first])
         /\ pc' = [pc EXCEPT ![t].phase = "wait", ![t].first = FALSE]
    /\ UNCHANGED <<loaded, exe_path, core_path, gdb_log, last>>

RECURSIVE Flat(_)
\* the records of a sequence of answers
Flat(answers) == IF answers = <<>> THEN <<>> ELSE Head(answers) \o Flat(Tail(answers))

\* what a thread may read: the first k answers not yet read, or a timeout
Reads ==
    IF pipe = <<>> THEN {[raised |-> TRUE, recs |-> <<>>, k |-> 0]}
    ELSE {[raised |-> FALSE, recs |-> Flat(SubSeq(pipe, 1, k)), k |-> k] : k \in 1..Len(pipe)}

\* verify_loaded on what the thread has read
Verdict(resp) ==
    /\ ~resp.raised
    /\ ~contains(lower(strip(format_responses(resp.recs))), "no executable file now")
    /\ ~contains(lower(strip(format_responses(resp.recs))), "no symbol file now")

\* where the code goes on from the return of the submit of step a.step:
\* load_core, _ensure_loaded with reapply_target, _safe_call and /cmd
Resume(a, resp) ==
    LET Stop == [Resting EXCEPT !.on = a.on]
        Goes(act, ld, events) == [a |-> act, loaded |-> ld, events |-> events]
        text == format_responses(resp.recs)
    IN  IF a.step = "probe"
        THEN IF Verdict(resp) THEN Goes(AtStep(a, "own"), loaded, <<>>)
             ELSE IF Truthy(exe_path) /\ Truthy(core_path)
             THEN Goes(AtStep(a, "bind_exe"), loaded, <<>>)
             ELSE Goes(AtStep(a, "own"), loaded,
                       <<Event("restore", "(no recorded exe/core to reapply)")>>)
        ELSE IF a.step = "bind_exe"
        THEN IF resp.raised THEN Goes(Stop, loaded, <<>>)
             ELSE Goes([AtStep(a, "bind_core") EXCEPT !.out1 = resp.recs], loaded, <<>>)
        ELSE IF a.step = "bind_core"
        THEN IF resp.raised THEN Goes(Stop, loaded, <<>>)
             ELSE Goes([AtStep(a, "reprobe") EXCEPT !.out2 = resp.recs], loaded, <<>>)
        ELSE IF a.step = "reprobe"
        THEN IF a.op = "/load"
             THEN Goes(Stop, Verdict(resp),
                       <<Event("load_core", format_responses(a.out1 \o a.out2))>>)
             ELSE Goes([AtStep(a, IF a.branch = "loaded" THEN "own" ELSE "postprobe")
                            EXCEPT !.out1 = <<>>, !.out2 = <<>>],
                       Verdict(resp),
                       <<Event("restore", format_responses(a.out1 \o a.out2))>>)
        ELSE IF a.step = "postprobe"
        THEN IF Verdict(resp) THEN Goes(AtStep(a, "own"), TRUE, <<>>)
             ELSE Goes(Stop, loaded, <<>>)
        ELSE IF a.op = "/cmd"
        THEN IF resp.raised THEN Goes(Stop, loaded, <<>>)
             ELSE Goes(Stop, loaded, <<Event("GDB HH:MM:SS", text)>>)
        ELSE IF resp.raised THEN Goes(Stop, loaded, <<Event("error", TimeoutText)>>)
             ELSE Goes(Stop, loaded, <<Event("thread_info", text)>>)

\* write_mi, second half: the thread reads the answer and the code goes on
\* to its next submit or to the end of the operation
SubmitReturns ==
    /\ \E t \in Callers, resp \in Reads :
         /\ pc[t].phase = "wait"
         /\ pipe' = SubSeq(pipe, resp.k + 1, Len(pipe))
         /\ pc' = [pc EXCEPT ![t] = Resume(pc[t], resp).a]
         /\ loaded' = Resume(pc[t], resp).loaded
         /\ gdb_log' = gdb_log \o Resume(pc[t], resp).events
    /\ UNCHANGED <<exe_path, core_path, gdb, last, wire>>

NextThreads ==
    \/ OnEnterCmd
    \/ OnEnterLoad
    \/ OnEnterAsk
    \/ AgentCallsTool
    \/ AgentFinishes
    \/ SubmitBegins
    \/ SubmitReturns

SpecThreads == Init /\ [][NextThreads]_vars

\* the threads with a command in flight
InFlight == {t \in Callers : pc[t].phase = "wait"}

\* the i-th and the k-th command written belong to one operation of one thread
SameOperation(i, k) ==
    /\ i < k
    /\ wire[i].who = wire[k].who
    /\ \A j \in (i + 1)..k : wire[j].who = wire[i].who => ~wire[j].first

(***************************************************************************)
(* C18.  As claimed: at most one command is in flight to the subprocess at *)
(* any time, whatever the front-end's tasks and the running agents' tool   *)
(* calls do, and between two commands of one operation's sequence no       *)
(* command of another operation is written.                                *)
(***************************************************************************)
C18_Original ==
    /\ Cardinality(InFlight) <= 1
    /\ \A i, k \in 1..Len(wire) :
           SameOperation(i, k) => \A j \in i..k : wire[j].who = wire[i].who

\* the tools whose operation command runs inside _safe_call
SafeCallTools ==
    {"select_thread", "select_frame", "registers", "disassemble", "memory_read", "info_files",
     "sharedlibs", "bt_full", "info_args", "info_locals", "thread_info"}

\* the context check has passed and the Transport raised at the operation
\* command of a tool written with _safe_call
C21_OwnCommandFailed ==
    /\ last.op \in SafeCallTools
    /\ last.obs.ens = "empty"
    /\ last.fault.kind = "raise"
    /\ last.fault.pos > last.obs.ensEnd

(***************************************************************************)
(* C21.  When the Transport raises at the operation command of a tool      *)
(* written with _safe_call, after the context check has passed, the tool   *)
(* returns the inline text "(error: ...)" with the Transport's message and *)
(* logs exactly one [error] event and no event under its own tag; the      *)
(* paths are those recorded before the call and loaded is what the context *)
(* check left (the flag found, or the verdict that ended its reapply); the *)
(* failed command is the last one submitted (no retry), the subprocess is  *)
(* the one that was running (no restart), and the exception does not reach *)
(* the caller, so that the next operation can be invoked.                  *)
(***************************************************************************)
C21_FailureInline ==
    C21_OwnCommandFailed =>
        /\ ~last.raised
        /\ last.ret = "(error: " \o TimeoutText \o ")"
        /\ OwnEvents = <<Event("error", TimeoutText)>>
        /\ exe_path = last.pre.exe_path
        /\ core_path = last.pre.core_path
        /\ loaded = (IF last.obs.reapplies = 0 THEN last.pre.loaded ELSE LastVerify.val)
        /\ Len(last.sent) = last.fault.pos
        /\ Len(OwnSent) = 1
        /\ gdb.alive
        /\ ENABLED Return

C21_Witness ==
    /\ last.op = "registers"
    /\ last.pre.loaded
    /\ last.fault = [pos |-> 2, kind |-> "raise"]
    /\ Len(last.sent) = 2
    /\ last.sent[1] = Probe
    /\ gdb_log = <<Event("error", TimeoutText)>>
    /\ last.ret = "(error: " \o TimeoutText \o ")"
    /\ loaded

(***************************************************************************)
(* The whole session: the agent's tools, the front-end's commands and the  *)
(* controller's public methods, called in any order, each call running to  *)
(* its end before the next one.                                            *)
(***************************************************************************)
NextAll ==
    \/ Next
    \/ NextApi

SpecAll == Init /\ [][NextAll]_vars

\* the calls of load_core: the tool, the front-end's /load, the method itself
LoadCalls == {"load_core", "/load", "gdb.load_core"}

\* a step changes a recorded path
PathsChange == exe_path' # exe_path \/ core_path' # core_path

\* the step is a call of load_core that has recorded the call's arguments
RecordsArguments ==
    /\ last'.op \in LoadCalls
    /\ exe_path' = last'.arg.exe
    /\ core_path' = last'.arg.core

Bound(l, i) ==
    /\ IsBind(l.sent[i])
    /\ l.pre.gdb.alive
    /\ l.fault.pos # i

BindsIn(l) == \E i \in 1..Len(l.sent) : Bound(l, i)

\* a verify_loaded call of the invocation returned true after the last bind
\* command the debugger has taken in it
VerifiedAfterBinds(l) ==
    \E n \in 1..Len(l.obs.verifies) :
        /\ l.obs.verifies[n].val
        /\ \A i \in 1..Len(l.sent) : Bound(l, i) => i < l.obs.verifies[n].at

(***************************************************************************)
(* C23.  As claimed: whenever loaded is true both paths are recorded, and  *)
(* a verify_loaded call made after those paths were last bound returned    *)
(* true.  Step by step: a step that ends with loaded true either leaves    *)
(* the flag true, the paths as they were and binds nothing, or contains a   *)
(* verify_loaded call that returned true after the last bind command the   *)
(* debugger has taken.                                                     *)
(***************************************************************************)
C23_Original ==
    [][ loaded' =>
          /\ Truthy(exe_path')
          /\ Truthy(core_path')
          /\ \/ loaded /\ ~PathsChange /\ ~BindsIn(last')
             \/ VerifiedAfterBinds(last') ]_vars

(***************************************************************************)
(* C23, the part that holds: the flag is never set true, from false,       *)
(* without a verify_loaded call of the same invocation that returned true  *)
(* after the last bind command the debugger has taken in it.               *)
(***************************************************************************)
C23_SetTrueOnlyVerified ==
    [][ (~loaded /\ loaded') => VerifiedAfterBinds(last') ]_vars

====
